---- MODULE Spec2Model ----
(***************************************************************************)
(* Courier/order matching simulation (src/order.py).                       *)
(*                                                                         *)
(* The program is a set of asyncio tasks on one event loop:                *)
(*   main            the driver: submits orders two per one-second tick    *)
(*   P k             OrderManager.prepare(order k)                         *)
(*   O k             Order.prepare() of order k (the kitchen timer)        *)
(*   D k             CourierManager.dispatch -> _dispatch (the courier)    *)
(* A task runs from one await to the next without interruption.  The loop  *)
(* keeps a FIFO queue of runnable tasks (call_soon) and a set of timers    *)
(* (asyncio.sleep).  Time is counted in poll intervals (0.1 s).            *)
(***************************************************************************)
EXTENDS Integers, Sequences, FiniteSets, TLC

\* ---------------------------------------------------------------- bounds
MaxOrders == 3          \* longest input list
MaxPrep == 4            \* largest prepTime (seconds) of an input descriptor

\* ------------------------------------------------------ program constants
MinDelay == 3           \* random.randint(3, 15)
MaxDelay == 15          \* random.randint(3, 15)
MainSleep == 1          \* await asyncio.sleep(1) of main
BatchSize == 2          \* orders_data[:2]
PollsPerSecond == 10    \* asyncio.sleep(0.1): ten polls per second
None == -1              \* Python None for timestamps, ids and references

PollInterval == 1                          \* one tick of model time = 0.1 s
MsPerTick == 1000 \div PollsPerSecond      \* timedelta / timedelta(milliseconds=1)
Seconds(s) == s * PollsPerSecond           \* asyncio.sleep(s) in ticks

Max(a, b) == IF a >= b THEN a ELSE b
Min(a, b) == IF a <= b THEN a ELSE b

\* the travel durations the model draws: the two shortest of randint(3, 15)
DelayChoices == {d \in MinDelay..MaxDelay : d <= MinDelay + 1}
\* the prepTime values of the inputs: the shortest travel duration and a longer
\* one, so that an order is ready before, with and after a courier's arrival
PrepChoices == {MinDelay, MaxPrep}
Strategies == {"matched", "fifo"}
Selectors == Strategies \cup {"bogus"}

\* Latest instant the clock is advanced to: past the end of every run whose
\* tasks all finish.
Horizon == Seconds(MainSleep * MaxOrders + Max(MaxPrep, MaxDelay) + 1)

VARIABLES
    strategy,            \* args.strategy
    input,               \* the descriptor list read from stdin (never changes)
    orders_data,         \* main's orders_data: descriptors not yet submitted
    mainPc,              \* position of main
    now,                 \* the clock (ticks of 0.1 s)
    ready,               \* event loop: FIFO queue of runnable tasks
    timers,              \* event loop: sleeping tasks, [task, when, since]
    orderObjs,           \* Order objects, in creation order
    prepPc,              \* position of each OrderManager.prepare task
    orderPc,             \* position of each Order.prepare task
    dispPc,              \* position of each _dispatch task
    orders,              \* OrderManager.orders: insertion-ordered dict id -> Order
    courierObjs,         \* Courier object of each _dispatch task (task -> Courier)
    couriers,            \* CourierManager.couriers: dict id -> Courier (its task)
    courier_wait_times,  \* CourierManager.courier_wait_times
    order_wait_times,    \* CourierManager.order_wait_times
    completed,           \* couriers returned by _dispatch, in completion order
    averages             \* result of the final get_averages() of main

vars == <<strategy, input, orders_data, mainPc, now, ready, timers, orderObjs,
          prepPc, orderPc, dispPc, orders, courierObjs, couriers,
          courier_wait_times, order_wait_times, completed, averages>>

\* the shortest input in which an order can be picked up before another
\* descriptor with its id is submitted: the other one comes in a batch that
\* is read more than the shortest travel time later
LongLen == BatchSize * (MinDelay \div MainSleep + 1) + 1
Slots == 1 .. Max(MaxOrders, LongLen)

MainTask == <<"main", 0>>
PTask(k) == <<"P", k>>
OTask(k) == <<"O", k>>
DTask(k) == <<"D", k>>

\* ------------------------------------------------------------- pure code

\* (variant: the magnitude of the difference, whichever came first)
get_wait_time_abs(c, objs) ==
    IF c.arrived_at < objs[c.order].ready_at
    THEN (objs[c.order].ready_at - c.arrived_at) * MsPerTick
    ELSE (c.arrived_at - objs[c.order].ready_at) * MsPerTick
\* Courier.get_wait_time
get_wait_time(c, objs) ==
    IF c.arrived_at < objs[c.order].ready_at
    THEN (objs[c.order].ready_at - c.arrived_at) * MsPerTick
    ELSE 0

\* (variant: the difference without the comparison)
get_order_wait_time_unguarded(c, objs) ==
    (c.arrived_at - objs[c.order].ready_at) * MsPerTick
\* (variant: the comparison is not strict and the order wait counts the poll)
get_order_wait_time_polled(c, objs) ==
    IF c.arrived_at + PollInterval < objs[c.order].ready_at
    THEN 0
    ELSE (c.arrived_at + PollInterval - objs[c.order].ready_at) * MsPerTick
\* Courier.get_order_wait_time
get_order_wait_time(c, objs) ==
    IF c.arrived_at < objs[c.order].ready_at
    THEN 0
    ELSE (c.arrived_at - objs[c.order].ready_at) * MsPerTick

RECURSIVE SumSeq(_)
SumSeq(s) == IF s = <<>> THEN 0 ELSE Head(s) + SumSeq(Tail(s))

\* (variant: an empty sequence averages to zero instead of raising)
get_averages_guarded(cw, ow) == FALSE
\* CourierManager.get_averages: sum(...) / len(...) of each sequence, kept as
\* the exact fraction <<sum, len>>; the division raises on an empty sequence
get_averages_raises(cw, ow) == Len(cw) = 0 \/ Len(ow) = 0
get_averages(cw, ow) == <<<<SumSeq(cw), Len(cw)>>, <<SumSeq(ow), Len(ow)>>>>

\* dict lookup / store of OrderManager.orders (insertion order kept; storing
\* under an existing key keeps the key's position)
HasKey(d, key) == \E i \in 1..Len(d) : d[i].key = key
\* (variant: a new key is put first)
DictSetFront(d, key, obj) ==
    IF HasKey(d, key)
    THEN [i \in 1..Len(d) |-> IF d[i].key = key THEN [key |-> key, obj |-> obj] ELSE d[i]]
    ELSE <<[key |-> key, obj |-> obj]>> \o d
\* (variant: a list of entries, nothing is ever replaced)
DictSetAppend(d, key, obj) == Append(d, [key |-> key, obj |-> obj])
DictSet(d, key, obj) ==
    IF HasKey(d, key)
    THEN [i \in 1..Len(d) |-> IF d[i].key = key THEN [key |-> key, obj |-> obj] ELSE d[i]]
    ELSE Append(d, [key |-> key, obj |-> obj])

\* the scan of OrderManager.get_next_order: position in the dict of the first
\* order that is ready and unclaimed, 0 if there is none
\* (variant: "is not None" for "is None")
ClaimableInverted(d, objs, i) == objs[d[i].obj].ready_at # None /\ objs[d[i].obj].courier_id # None
\* (variant: the scan does not look at ready_at)
ClaimableUnready(d, objs, i) == objs[d[i].obj].courier_id = None
Claimable(d, objs, i) == objs[d[i].obj].ready_at # None /\ objs[d[i].obj].courier_id = None
\* (variant: the scan does not look at courier_id)
FirstReady(d, objs) ==
    IF \E i \in 1..Len(d) : objs[d[i].obj].ready_at # None
    THEN CHOOSE i \in 1..Len(d) :
            /\ objs[d[i].obj].ready_at # None
            /\ \A j \in 1..(i-1) : objs[d[j].obj].ready_at = None
    ELSE 0
\* (variant: the scan takes the claimable order that became ready first)
EarliestClaimable(d, objs) ==
    IF \E i \in 1..Len(d) : Claimable(d, objs, i)
    THEN CHOOSE i \in 1..Len(d) :
            /\ Claimable(d, objs, i)
            /\ \A j \in 1..Len(d) :
                  Claimable(d, objs, j) =>
                      \/ objs[d[i].obj].ready_at < objs[d[j].obj].ready_at
                      \/ (objs[d[i].obj].ready_at = objs[d[j].obj].ready_at /\ i <= j)
    ELSE 0
\* (variant: the scan looks at the first entry of the dict only)
HeadClaimable(d, objs) ==
    IF Len(d) > 0 /\ Claimable(d, objs, 1) THEN 1 ELSE 0
FirstClaimable(d, objs) ==
    IF \E i \in 1..Len(d) : Claimable(d, objs, i)
    THEN CHOOSE i \in 1..Len(d) :
            /\ Claimable(d, objs, i)
            /\ \A j \in 1..(i-1) : ~Claimable(d, objs, j)
    ELSE 0

\* (variant: every Matched courier is bound to the first order)
BoundFirst(k) == IF strategy = "matched" THEN 1 ELSE None
\* (variant: every strategy binds the courier to the order of its slot)
BoundAlways(k) == k
\* dispatch of the strategy: the order the courier is created with
BoundOrder(k) == IF strategy = "matched" THEN k ELSE None

\* ------------------------------------------------------------ event loop

\* asyncio.sleep: a timer, kept in the order the sleeps were called; "since"
\* is the instant of the call
Sleep(task, ticks) == [task |-> task, when |-> now + ticks, since |-> now]
Expired == {i \in 1..Len(timers) : timers[i].when <= now}
\* a task runs when it heads the queue, after the expired timers were queued
Running(task) == ready # <<>> /\ Head(ready) = task /\ Expired = {}
\* Timers are queued by their deadline.  Of two sleeps called at the same
\* instant the one called first has the earlier deadline; sleeps called at
\* different instants that end together are queued in either order.
MayFire(i) ==
    /\ i \in Expired
    /\ \A j \in Expired : timers[i].when <= timers[j].when
    /\ \A j \in Expired :
          (j < i /\ timers[j].when = timers[i].when) => timers[j].since # timers[i].since
Remove(s, i) == SubSeq(s, 1, i - 1) \o SubSeq(s, i + 1, Len(s))

\* ------------------------------------------------------------------ Init

Descriptors(n) == [1..n -> PrepChoices]
Inputs ==
    UNION {{[k \in 1..n |-> [id |-> k, prepTime |-> p[k]]] : p \in Descriptors(n)}
           : n \in 0..MaxOrders}

InitWith(ins) ==
    /\ strategy \in Selectors
    /\ input \in ins
    /\ orders_data = input
    /\ mainPc = "start"
    /\ now = 0
    /\ ready = <<MainTask>>
    /\ timers = <<>>
    /\ orderObjs = <<>>
    /\ prepPc = [k \in Slots |-> "none"]
    /\ orderPc = [k \in Slots |-> "none"]
    /\ dispPc = [k \in Slots |-> "none"]
    /\ orders = <<>>
    /\ courierObjs = <<>>
    /\ couriers = <<>>
    /\ courier_wait_times = <<>>
    /\ order_wait_times = <<>>
    /\ completed = <<>>
    /\ averages = <<>>

Init == InitWith(Inputs)

\* inputs in which two descriptors share an id: those of one batch with every
\* pattern of equal ids (ids numbered by first occurrence), and one of LongLen
\* orders whose last id is that of the first
DupLens == {BatchSize}
IdPatterns(n) ==
    {f \in [1..n -> 1..n] :
        /\ f[1] = 1
        /\ \A i \in 2..n : \E j \in 1..(i-1) : f[i] <= f[j] + 1
        /\ \E i, j \in 1..n : i < j /\ f[i] = f[j]}
DupShort ==
    UNION {{[k \in 1..n |-> [id |-> ids[k], prepTime |-> p[k]]]
                : ids \in IdPatterns(n), p \in Descriptors(n)}
           : n \in DupLens}
LongInput ==
    [k \in 1..LongLen |-> [id |-> IF k = LongLen THEN 1 ELSE k, prepTime |-> MinDelay]]
DupInputs == DupShort \cup {LongInput}

\* the two-order input [o1 prepTime 5, o2 prepTime 2], both in the first batch
Scenario == <<[id |-> 1, prepTime |-> 5], [id |-> 2, prepTime |-> 2]>>

\* ------------------------------------------------------------------ main

\* main, lines 209-211: the final get_averages()
FinalAverages ==
    IF get_averages_raises(courier_wait_times, order_wait_times)
    THEN /\ mainPc' = "ZeroDivisionError"
         /\ averages' = averages
    ELSE /\ mainPc' = "done"
         /\ averages' = get_averages(courier_wait_times, order_wait_times)

\* main, lines 179-184 with a selector that is no key of strategies
MainUnknownStrategy ==
    /\ Running(MainTask)
    /\ mainPc = "start"
    /\ strategy \notin Strategies
    /\ mainPc' = "KeyError"
    /\ ready' = Tail(ready)
    /\ UNCHANGED <<strategy, input, orders_data, now, timers, orderObjs, prepPc,
                   orderPc, dispPc, orders, courierObjs, couriers,
                   courier_wait_times, order_wait_times, completed, averages>>

\* (variant: an unknown selector falls through to the set-up)
MainStartUnchecked ==
    /\ Running(MainTask)
    /\ mainPc = "start"
    /\ ready' = Tail(ready)
    /\ IF Len(orders_data) = 0
       THEN /\ FinalAverages
            /\ timers' = timers
       ELSE /\ mainPc' = "sleep"
            /\ timers' = Append(timers, Sleep(MainTask, Seconds(MainSleep)))
            /\ averages' = averages
    /\ UNCHANGED <<strategy, input, orders_data, now, orderObjs, prepPc, orderPc,
                   dispPc, orders, courierObjs, couriers, courier_wait_times,
                   order_wait_times, completed>>

\* main, lines 179-194: set-up and the first pass through the loop head
MainStart ==
    /\ Running(MainTask)
    /\ mainPc = "start"
    /\ strategy \in Strategies
    /\ ready' = Tail(ready)
    /\ IF Len(orders_data) = 0
       THEN /\ FinalAverages          \* gather() of nothing is already done
            /\ timers' = timers
       ELSE /\ mainPc' = "sleep"
            /\ timers' = Append(timers, Sleep(MainTask, Seconds(MainSleep)))
            /\ averages' = averages
    /\ UNCHANGED <<strategy, input, orders_data, now, orderObjs, prepPc, orderPc,
                   dispPc, orders, courierObjs, couriers, courier_wait_times,
                   order_wait_times, completed>>

\* Order(**order_data)
NewOrder(d) == [id |-> d.id, prep_time |-> d.prepTime, ready_at |-> None, courier_id |-> None]

\* main, lines 195-206 and back to 190-194: one tick of the driver
MainTick ==
    /\ Running(MainTask)
    /\ mainPc = "sleep"
    /\ LET n == Min(BatchSize, Len(orders_data))
           base == Len(orderObjs)
           rest == SubSeq(orders_data, n + 1, Len(orders_data))
       IN /\ orderObjs' = orderObjs \o [i \in 1..n |-> NewOrder(orders_data[i])]
          /\ prepPc' = [k \in Slots |-> IF k \in (base+1)..(base+n) THEN "created" ELSE prepPc[k]]
          /\ ready' = Tail(ready) \o [i \in 1..n |-> PTask(base + i)]
          /\ orders_data' = rest
          /\ IF Len(rest) = 0
             THEN /\ mainPc' = "gather"
                  /\ timers' = timers
             ELSE /\ mainPc' = "sleep"
                  /\ timers' = Append(timers, Sleep(MainTask, Seconds(MainSleep)))
    /\ UNCHANGED <<strategy, input, now, orderPc, dispPc, orders, courierObjs,
                   couriers, courier_wait_times, order_wait_times, completed, averages>>

\* main, lines 208-211: gather(*order_coroutines) has completed
MainFinish ==
    /\ Running(MainTask)
    /\ mainPc = "gather"
    /\ ready' = Tail(ready)
    /\ FinalAverages
    /\ UNCHANGED <<strategy, input, orders_data, now, timers, orderObjs, prepPc,
                   orderPc, dispPc, orders, courierObjs, couriers,
                   courier_wait_times, order_wait_times, completed>>

\* ---------------------------------------------------- OrderManager.prepare

\* lines 159-166 up to the await: store the order, start the two coroutines
PrepareStart(k) ==
    /\ Running(PTask(k))
    /\ prepPc[k] = "created"
    /\ orders' = DictSet(orders, orderObjs[k].id, k)
    /\ ready' = Tail(ready) \o <<OTask(k), DTask(k)>>
    /\ prepPc' = [prepPc EXCEPT ![k] = "gather"]
    /\ orderPc' = [orderPc EXCEPT ![k] = "created"]
    /\ dispPc' = [dispPc EXCEPT ![k] = "created"]
    /\ UNCHANGED <<strategy, input, orders_data, mainPc, now, timers, orderObjs,
                   courierObjs, couriers, courier_wait_times, order_wait_times,
                   completed, averages>>

\* (variant: main's gather completes with the first prepare task that ends)
PrepareDoneAny(k) ==
    /\ Running(PTask(k))
    /\ prepPc[k] = "gather"
    /\ prepPc' = [prepPc EXCEPT ![k] = "done"]
    /\ ready' = IF mainPc = "gather" THEN Append(Tail(ready), MainTask) ELSE Tail(ready)
    /\ UNCHANGED <<strategy, input, orders_data, mainPc, now, timers, orderObjs,
                   orderPc, dispPc, orders, courierObjs, couriers,
                   courier_wait_times, order_wait_times, completed, averages>>

\* the gather of line 163 has completed: the task ends, and main's gather
\* (line 208) completes with the last of them
PrepareDone(k) ==
    /\ Running(PTask(k))
    /\ prepPc[k] = "gather"
    /\ prepPc' = [prepPc EXCEPT ![k] = "done"]
    /\ ready' = IF mainPc = "gather" /\ \A j \in 1..Len(orderObjs) : prepPc'[j] = "done"
                THEN Append(Tail(ready), MainTask)
                ELSE Tail(ready)
    /\ UNCHANGED <<strategy, input, orders_data, mainPc, now, timers, orderObjs,
                   orderPc, dispPc, orders, courierObjs, couriers,
                   courier_wait_times, order_wait_times, completed, averages>>

\* a child of the gather of line 163 ends: the parent resumes after the second
ChildDone(k, rdy, opc, dpc) ==
    IF opc[k] = "done" /\ dpc[k] = "done" THEN Append(rdy, PTask(k)) ELSE rdy

\* ------------------------------------------------------------ Order.prepare

\* lines 142-144
OrderPrepareStart(k) ==
    /\ Running(OTask(k))
    /\ orderPc[k] = "created"
    /\ orderPc' = [orderPc EXCEPT ![k] = "sleep"]
    /\ timers' = Append(timers, Sleep(OTask(k), Seconds(orderObjs[k].prep_time)))
    /\ ready' = Tail(ready)
    /\ UNCHANGED <<strategy, input, orders_data, mainPc, now, orderObjs, prepPc,
                   dispPc, orders, courierObjs, couriers, courier_wait_times,
                   order_wait_times, completed, averages>>

\* lines 145-146
OrderReady(k) ==
    /\ Running(OTask(k))
    /\ orderPc[k] = "sleep"
    /\ orderObjs' = [orderObjs EXCEPT ![k].ready_at = now]
    /\ orderPc' = [orderPc EXCEPT ![k] = "done"]
    /\ ready' = ChildDone(k, Tail(ready), orderPc', dispPc)
    /\ UNCHANGED <<strategy, input, orders_data, mainPc, now, timers, prepPc,
                   dispPc, orders, courierObjs, couriers, courier_wait_times,
                   order_wait_times, completed, averages>>

\* ---------------------------------------------------------------- courier

\* (variant: the new entries are put first)
collect_stats_front(seqs, c, objs) ==
    <<(<<get_wait_time(c, objs)>>) \o seqs[1], (<<get_order_wait_time(c, objs)>>) \o seqs[2]>>
\* CourierManager.collect_stats, lines 97-98: one entry to each sequence
collect_stats(seqs, c, objs) ==
    <<Append(seqs[1], get_wait_time(c, objs)), Append(seqs[2], get_order_wait_time(c, objs))>>

\* _dispatch, lines 92-94, after wait_for_order_to_be_ready has returned:
\* record the statistics and end the task
Complete(k, c, objs) ==
    /\ LET stats == collect_stats(<<courier_wait_times, order_wait_times>>, c, objs)
       IN /\ courier_wait_times' = stats[1]
          /\ order_wait_times' = stats[2]
    /\ completed' = Append(completed, k)
    /\ dispPc' = [dispPc EXCEPT ![k] = "done"]
    /\ ready' = ChildDone(k, Tail(ready), orderPc, dispPc')

\* (variant: the id is the number of couriers, so the second courier
\* takes the id of the first)
NextCourierIdLen(cs) == Max(1, Cardinality(DOMAIN cs))
\* id of a new courier, line 84
NextCourierId(cs) == 1 + Cardinality(DOMAIN cs)

\* _dispatch, lines 82-90, and Courier.dispatch up to its sleep, lines 29-33
\* the draws enumerated for the courier of slot k: the couriers after the first
\* MaxOrders all draw the shortest travel time
Draws(k) == IF k <= MaxOrders THEN DelayChoices ELSE {MinDelay}
DispatchStart(k) ==
    /\ Running(DTask(k))
    /\ dispPc[k] = "created"
    /\ \E delay \in Draws(k) :
          LET courier == [id |-> NextCourierId(couriers), delay |-> delay,
                          order |-> BoundOrder(k), arrived_at |-> None]
          IN /\ courierObjs' = (k :> courier) @@ courierObjs
             /\ couriers' = (courier.id :> k) @@ couriers
             /\ timers' = Append(timers, Sleep(DTask(k), Seconds(delay)))
    /\ dispPc' = [dispPc EXCEPT ![k] = "travel"]
    /\ ready' = Tail(ready)
    /\ UNCHANGED <<strategy, input, orders_data, mainPc, now, orderObjs, prepPc,
                   orderPc, orders, courier_wait_times, order_wait_times,
                   completed, averages>>

\* Courier.dispatch, lines 34-35, then wait_for_order_to_be_ready up to its
\* first await: lines 38-41 and 170 (Fifo), lines 49-55 (Matched)
CourierArrive(k) ==
    /\ Running(DTask(k))
    /\ dispPc[k] = "travel"
    /\ LET c == [courierObjs[k] EXCEPT !.arrived_at = now]
       IN /\ courierObjs' = [courierObjs EXCEPT ![k] = c]
          /\ IF c.order = None
             THEN /\ dispPc' = [dispPc EXCEPT ![k] = "next_order"]
                  /\ timers' = Append(timers, Sleep(DTask(k), PollInterval))
                  /\ ready' = Tail(ready)
                  /\ UNCHANGED <<courier_wait_times, order_wait_times, completed>>
             ELSE IF orderObjs[c.order].ready_at = None
             THEN /\ dispPc' = [dispPc EXCEPT ![k] = "wait_ready"]
                  /\ timers' = Append(timers, Sleep(DTask(k), PollInterval))
                  /\ ready' = Tail(ready)
                  /\ UNCHANGED <<courier_wait_times, order_wait_times, completed>>
             ELSE /\ Complete(k, c, orderObjs)
                  /\ timers' = timers
    /\ UNCHANGED <<strategy, input, orders_data, mainPc, now, orderObjs, prepPc,
                   orderPc, orders, couriers, averages>>

\* (variant: every turn of the poll loop stamps arrived_at again)
MatchedPollRestamp(k) ==
    /\ Running(DTask(k))
    /\ dispPc[k] = "wait_ready"
    /\ LET c == [courierObjs[k] EXCEPT !.arrived_at = now]
       IN /\ courierObjs' = [courierObjs EXCEPT ![k] = c]
          /\ IF orderObjs[c.order].ready_at = None
             THEN /\ timers' = Append(timers, Sleep(DTask(k), PollInterval))
                  /\ ready' = Tail(ready)
                  /\ UNCHANGED <<dispPc, courier_wait_times, order_wait_times, completed>>
             ELSE /\ Complete(k, c, orderObjs)
                  /\ timers' = timers
    /\ UNCHANGED <<strategy, input, orders_data, mainPc, now, orderObjs, prepPc,
                   orderPc, orders, couriers, averages>>

\* wait_for_order_to_be_ready, lines 50-55 (Matched): one turn of the poll loop
MatchedPoll(k) ==
    /\ Running(DTask(k))
    /\ dispPc[k] = "wait_ready"
    /\ IF orderObjs[courierObjs[k].order].ready_at = None
       THEN /\ timers' = Append(timers, Sleep(DTask(k), PollInterval))
            /\ ready' = Tail(ready)
            /\ UNCHANGED <<dispPc, courier_wait_times, order_wait_times, completed>>
       ELSE /\ Complete(k, courierObjs[k], orderObjs)
            /\ timers' = timers
    /\ UNCHANGED <<strategy, input, orders_data, mainPc, now, orderObjs, prepPc,
                   orderPc, orders, courierObjs, couriers, averages>>

\* OrderManager.get_next_order, lines 169-175 (Fifo): one turn of the poll
\* loop, and lines 41-46 when it returns an order
FifoPoll(k) ==
    /\ Running(DTask(k))
    /\ dispPc[k] = "next_order"
    /\ LET i == FirstClaimable(orders, orderObjs)
       IN IF i = 0
          THEN /\ timers' = Append(timers, Sleep(DTask(k), PollInterval))
               /\ ready' = Tail(ready)
               /\ UNCHANGED <<dispPc, orderObjs, courierObjs, courier_wait_times,
                              order_wait_times, completed>>
          ELSE LET o == orders[i].obj
                   objs == [orderObjs EXCEPT ![o].courier_id = courierObjs[k].id]
                   c == [courierObjs[k] EXCEPT !.order = o]
               IN /\ orderObjs' = objs
                  /\ courierObjs' = [courierObjs EXCEPT ![k] = c]
                  /\ Complete(k, c, objs)
                  /\ timers' = timers
    /\ UNCHANGED <<strategy, input, orders_data, mainPc, now, prepPc, orderPc,
                   orders, couriers, averages>>

\* ------------------------------------------------------------- event loop

\* a timer has expired: its task becomes runnable
Fire(i) ==
    /\ MayFire(i)
    /\ ready' = Append(ready, timers[i].task)
    /\ timers' = Remove(timers, i)
    /\ UNCHANGED <<strategy, input, orders_data, mainPc, now, orderObjs, prepPc,
                   orderPc, dispPc, orders, courierObjs, couriers,
                   courier_wait_times, order_wait_times, completed, averages>>

\* nothing is runnable: the loop sleeps until the earliest timer
NextWake ==
    CHOOSE w \in {timers[i].when : i \in 1..Len(timers)} :
        \A i \in 1..Len(timers) : w <= timers[i].when
Advance ==
    /\ ready = <<>>
    /\ timers # <<>>
    /\ Expired = {}
    /\ NextWake <= Horizon
    /\ now' = NextWake
    /\ UNCHANGED <<strategy, input, orders_data, mainPc, ready, timers, orderObjs,
                   prepPc, orderPc, dispPc, orders, courierObjs, couriers,
                   courier_wait_times, order_wait_times, completed, averages>>

Next ==
    \/ MainUnknownStrategy
    \/ MainStart
    \/ MainTick
    \/ MainFinish
    \/ \E k \in Slots : PrepareStart(k)
    \/ \E k \in Slots : PrepareDone(k)
    \/ \E k \in Slots : OrderPrepareStart(k)
    \/ \E k \in Slots : OrderReady(k)
    \/ \E k \in Slots : DispatchStart(k)
    \/ \E k \in Slots : CourierArrive(k)
    \/ \E k \in Slots : MatchedPoll(k)
    \/ \E k \in Slots : FifoPoll(k)
    \/ \E i \in 1..Len(timers) : Fire(i)
    \/ Advance

Spec == Init /\ [][Next]_vars

\* the event loop never idles while a task is runnable or a timer pending
FairSpec == Spec /\ WF_vars(Next)

\* runs of the inputs with a shared id
DupSpec == InitWith(DupInputs) /\ [][Next]_vars
DupFairSpec == DupSpec /\ WF_vars(Next)

\* runs of the two-order input
ScenarioSpec == InitWith({Scenario}) /\ [][Next]_vars

\* The loop resumes a sleeper at its deadline or later, and datetime.now()
\* reads the wall clock when the task runs: here the loop may wake one tick
\* after the earliest deadline.
AdvanceLate ==
    /\ ready = <<>>
    /\ timers # <<>>
    /\ Expired = {}
    /\ NextWake + 1 <= Horizon
    /\ now' = NextWake + 1
    /\ UNCHANGED <<strategy, input, orders_data, mainPc, ready, timers, orderObjs,
                   prepPc, orderPc, dispPc, orders, courierObjs, couriers,
                   courier_wait_times, order_wait_times, completed, averages>>

\* runs of inputs of at most one batch in which the loop may wake late
LateInit == InitWith({i \in Inputs : Len(i) <= BatchSize})
LateNext == Next \/ AdvanceLate
LateSpec == LateInit /\ [][LateNext]_vars

\* ------------------------------------------------------------- properties

OrderIds == 1..Len(orderObjs)
CourierTasks == DOMAIN courierObjs
\* couriers that have picked up an order, and the orders they picked up
Finished == {k \in CourierTasks : dispPc[k] = "done"}
PickedBy(k) == courierObjs[k].order
Ready(o) == orderObjs[o].ready_at # None
Claimed(o) == orderObjs[o].courier_id # None

\* no two couriers hold the same order
NoSharedOrder ==
    \A a, b \in CourierTasks :
        (a # b /\ PickedBy(a) # None /\ PickedBy(b) # None) => PickedBy(a) # PickedBy(b)

\* C1: under Fifo an order's courier_id, once set, never changes, and no two
\* couriers ever hold the same order.
C1_ClaimedOnce ==
    /\ [](strategy = "fifo" => NoSharedOrder)
    /\ [][strategy = "fifo" =>
            \A o \in OrderIds :
                Claimed(o) => orderObjs'[o].courier_id = orderObjs[o].courier_id]_vars

\* a courier has just claimed the only ready order while another arrived
\* courier is queued to scan on the same tick
C1_Witness ==
    /\ strategy = "fifo"
    /\ ready # <<>>
    /\ \E a, b \in CourierTasks :
          /\ a # b
          /\ dispPc[a] = "done"
          /\ orderObjs[PickedBy(a)].courier_id = courierObjs[a].id
          /\ dispPc[b] = "next_order"
          /\ Head(ready) = DTask(b)
          /\ \A o \in OrderIds : Ready(o) => Claimed(o)

\* C2: under Fifo the order a scan claims is the first entry of the order
\* collection, in insertion order, that was ready and unclaimed before the scan.
C2_InsertionOrder ==
    [][strategy = "fifo" =>
          \A o \in OrderIds :
              (~Claimed(o) /\ orderObjs'[o].courier_id # None) =>
                  \E i \in 1..Len(orders) :
                      /\ orders[i].obj = o
                      /\ Ready(o)
                      /\ \A j \in 1..(i-1) :
                            ~(Ready(orders[j].obj) /\ ~Claimed(orders[j].obj))]_vars

\* A was submitted before B, B became ready before A, A is claimed and B is
\* still ready and unclaimed: the scan that took A passed over B
C2_Witness ==
    /\ strategy = "fifo"
    /\ \E i, j \in 1..Len(orders) :
          /\ i < j
          /\ Ready(orders[i].obj) /\ Ready(orders[j].obj)
          /\ orderObjs[orders[j].obj].ready_at < orderObjs[orders[i].obj].ready_at
          /\ Claimed(orders[i].obj)
          /\ ~Claimed(orders[j].obj)

\* the orders some finished courier picked up
PairedOrders == {PickedBy(k) : k \in Finished}
AllPaired == Len(orderObjs) = Len(input) /\ \A o \in 1..Len(input) : o \in PairedOrders
AllCouriersFinished == \A k \in 1..Len(input) : k \in CourierTasks /\ dispPc[k] = "done"
NormalEnd == mainPc = "done" /\ AllPaired /\ AllCouriersFinished

\* C3 (as stated): for every input list and either strategy the run ends
\* normally with every order paired and every courier finished.
C3_Original == (strategy \in Strategies) => <>NormalEnd

\* C3 (amended): for every non-empty input list and either strategy the run
\* eventually ends normally with every order paired and every courier finished.
C3_Terminates == (strategy \in Strategies /\ input # <<>>) => <>NormalEnd

\* a Fifo run over the longest input has ended normally
C3_Witness == NormalEnd /\ strategy = "fifo" /\ Len(input) = MaxOrders

\* C4: when a Fifo run has completed, the claimed orders are the ready orders
\* are all submitted orders, and couriers and orders are paired one to one.
C4_Exclusivity ==
    (strategy = "fifo" /\ mainPc = "done") =>
        /\ {o \in OrderIds : Claimed(o)} = {o \in OrderIds : Ready(o)}
        /\ {o \in OrderIds : Ready(o)} = 1..Len(input)
        /\ \A k \in CourierTasks : PickedBy(k) \in OrderIds
        /\ \A a, b \in CourierTasks : PickedBy(a) = PickedBy(b) => a = b
        /\ \A o \in OrderIds : \E k \in CourierTasks :
              PickedBy(k) = o /\ orderObjs[o].courier_id = courierObjs[k].id

\* a completed Fifo run in which a courier picked up an order other than the
\* one whose submission created it
C4_Witness ==
    /\ strategy = "fifo"
    /\ mainPc = "done"
    /\ Len(input) >= 2
    /\ \E k \in CourierTasks : PickedBy(k) # k

\* C5: under Matched the courier created on submission of order k is bound to
\* order k in every state, and has finished only with k ready and recorded.
C5_Bound ==
    strategy = "matched" =>
        \A k \in CourierTasks :
            /\ PickedBy(k) = k
            /\ dispPc[k] = "done" =>
                  /\ Ready(k)
                  /\ courierObjs[k].arrived_at # None
                  /\ \E i \in 1..Len(completed) : completed[i] = k

\* a Matched courier that arrived before its order was ready has picked it
\* up, and so has one that arrived after its order was ready
C5_Witness ==
    /\ strategy = "matched"
    /\ \E k, j \in Finished :
          /\ courierObjs[k].arrived_at < orderObjs[k].ready_at
          /\ courierObjs[j].arrived_at > orderObjs[j].ready_at

\* the pairing recorded at index i
PairCourier(i) == courierObjs[completed[i]]
PairArrived(i) == PairCourier(i).arrived_at
PairReady(i) == orderObjs[PairCourier(i).order].ready_at
Recorded == 1..Len(completed)

\* C6: every recorded pair is the reference split, in milliseconds:
\* courier wait = max(0, ready - arrived), order wait = max(0, arrived - ready),
\* so no recorded value is negative.
C6_Split ==
    /\ Len(courier_wait_times) = Len(completed)
    /\ Len(order_wait_times) = Len(completed)
    /\ \A i \in Recorded :
          /\ courier_wait_times[i] = Max(0, PairReady(i) - PairArrived(i)) * MsPerTick
          /\ order_wait_times[i] = Max(0, PairArrived(i) - PairReady(i)) * MsPerTick
          /\ courier_wait_times[i] >= 0
          /\ order_wait_times[i] >= 0

\* one recorded pairing in which the courier waited and one in which the
\* order waited
C6_Witness ==
    /\ \E i \in Recorded : courier_wait_times[i] > 0 /\ PairArrived(i) < PairReady(i)
    /\ \E i \in Recorded : order_wait_times[i] > 0 /\ PairArrived(i) > PairReady(i)

\* C7: of the two entries of a recorded pairing at most one is non-zero, and
\* both are zero only when arrived_at equals ready_at.
C7_ZeroSum ==
    \A i \in Recorded :
        /\ i <= Len(courier_wait_times) /\ i <= Len(order_wait_times)
        /\ ~(courier_wait_times[i] # 0 /\ order_wait_times[i] # 0)
        /\ (courier_wait_times[i] = 0 /\ order_wait_times[i] = 0) => PairArrived(i) = PairReady(i)

\* a pairing with a courier wait, one with an order wait and one with neither
C7_Witness ==
    /\ \E i \in Recorded : courier_wait_times[i] # 0
    /\ \E i \in Recorded : order_wait_times[i] # 0
    /\ \E i \in Recorded : courier_wait_times[i] = 0 /\ order_wait_times[i] = 0

\* C8 (as stated): exactly one of the two entries of every recorded pairing is
\* non-zero.
C8_Original ==
    \A i \in Recorded : (courier_wait_times[i] # 0) # (order_wait_times[i] # 0)

\* C8 (amended): exactly one of the two entries of a recorded pairing is
\* non-zero, except that both are zero when arrived_at equals ready_at.
C8_ExactlyOneUnlessSimultaneous ==
    \A i \in Recorded :
        IF PairArrived(i) = PairReady(i)
        THEN courier_wait_times[i] = 0 /\ order_wait_times[i] = 0
        ELSE (courier_wait_times[i] # 0) # (order_wait_times[i] # 0)

\* a Matched courier arrived at the instant its order became ready
C8_Witness ==
    /\ strategy = "matched"
    /\ \E i \in Recorded :
          /\ PairArrived(i) = PairReady(i)
          /\ courier_wait_times[i] = 0
          /\ order_wait_times[i] = 0

\* C9: the two sequences have the same length, the number of couriers that
\* have completed their pickup; every such courier has exactly one entry, and
\* the entries are in completion order.
C9_OneEntryEach ==
    /\ Len(courier_wait_times) = Len(order_wait_times)
    /\ Len(courier_wait_times) = Cardinality(Finished)
    /\ Len(completed) = Cardinality(Finished)
    /\ \A k \in Finished : Cardinality({i \in Recorded : completed[i] = k}) = 1
    /\ \A i \in Recorded :
          /\ i <= Len(courier_wait_times) /\ i <= Len(order_wait_times)
          /\ completed[i] \in Finished
          /\ courier_wait_times[i] = get_wait_time(PairCourier(i), orderObjs)
          /\ order_wait_times[i] = get_order_wait_time(PairCourier(i), orderObjs)

\* three couriers have completed, the one created last not last, with
\* entries that tell them apart
C9_Witness ==
    /\ Len(completed) = MaxOrders
    /\ completed[1] > completed[2]
    /\ courier_wait_times[1] # courier_wait_times[2]

\* the final averages have been computed (or their computation has raised)
FinalComputed == mainPc \in {"done", "ZeroDivisionError"}
AllTasksDone ==
    \A k \in Slots :
        /\ prepPc[k] \in {"none", "done"}
        /\ orderPc[k] \in {"none", "done"}
        /\ dispPc[k] \in {"none", "done"}

\* C10: the final averages are computed only after every descriptor has been
\* submitted and every preparation and courier task has completed; for N >= 1
\* orders each sequence then holds exactly N entries.
C10_FinalAfterAll ==
    /\ averages # <<>> => mainPc = "done"
    /\ FinalComputed =>
          /\ orders_data = <<>>
          /\ Len(orderObjs) = Len(input)
          /\ AllTasksDone
          /\ \A k \in 1..Len(input) : prepPc[k] = "done"
          /\ ready = <<>> /\ timers = <<>>
    /\ (FinalComputed /\ Len(input) >= 1) =>
          /\ mainPc = "done"
          /\ Len(courier_wait_times) = Len(input)
          /\ Len(order_wait_times) = Len(input)
          /\ averages = get_averages(courier_wait_times, order_wait_times)
          /\ averages[1][2] = Len(input)
          /\ averages[2][2] = Len(input)

\* the final averages of a single-order run
C10_Witness == mainPc = "done" /\ Len(input) = 1 /\ averages # <<>>

\* C11: computing the averages with no recorded completion ends in the error
\* outcome ZeroDivisionError, never in a result: a run of the empty input list
\* ends there, no result has a zero population, and the outcome of a run that
\* recorded only zero waits (a normal zero average) is "done".
C11_EmptyIsError ==
    /\ (FinalComputed /\ Len(courier_wait_times) = 0) =>
          (mainPc = "ZeroDivisionError" /\ averages = <<>>)
    /\ (input = <<>> /\ strategy \in Strategies /\ mainPc # "start") =>
          mainPc = "ZeroDivisionError"
    /\ mainPc = "ZeroDivisionError" => (averages = <<>> /\ Len(courier_wait_times) = 0)
    /\ averages # <<>> => (averages[1][2] > 0 /\ averages[2][2] > 0)
    /\ averages # <<<<0, 0>>, <<0, 0>>>>

\* the run of the empty input list has ended
C11_Witness == input = <<>> /\ mainPc = "ZeroDivisionError" /\ ready = <<>>

\* C12: with a selector other than "matched" and "fifo" the run ends at
\* start-up in KeyError, an outcome of no other run, with no order submitted,
\* no courier created and no statistic recorded.
C12_ConfigError ==
    /\ strategy \notin Strategies =>
          /\ mainPc \in {"start", "KeyError"}
          /\ orders_data = input
          /\ orderObjs = <<>> /\ orders = <<>>
          /\ CourierTasks = {} /\ DOMAIN couriers = {}
          /\ courier_wait_times = <<>> /\ order_wait_times = <<>>
          /\ averages = <<>>
          /\ timers = <<>>
    /\ mainPc = "KeyError" => strategy \notin Strategies

\* the run with an unknown selector and a non-empty input has ended
C12_Witness == mainPc = "KeyError" /\ Len(input) = MaxOrders /\ ready = <<>>

\* the orders a step submits (Order objects created and handed to a task)
Submitted == Len(orderObjs)
NewlySubmitted == Len(orderObjs') - Len(orderObjs)
\* the tick of main on which the next batch is due
BatchTick == Seconds(MainSleep) * (Submitted \div BatchSize + 1)

\* C13: the driver submits the descriptors in input order, each once, at most
\* two per tick and two on every tick but possibly the last, a batch never
\* before the tick after the previous batch; the order collection holds the
\* orders in input order.
C13_Batches ==
    /\ [](/\ Submitted + Len(orders_data) = Len(input)
          /\ \A k \in 1..Submitted :
                orderObjs[k].id = input[k].id /\ orderObjs[k].prep_time = input[k].prepTime
          /\ \A i \in 1..Len(orders_data) : orders_data[i] = input[Submitted + i]
          /\ Len(orders) <= Submitted
          /\ \A i \in 1..Len(orders) : orders[i].obj = i /\ orders[i].key = input[i].id
          /\ (mainPc \in {"gather", "done"} => Submitted = Len(input)))
    /\ [][NewlySubmitted # 0 =>
            /\ NewlySubmitted \in 1..BatchSize
            /\ (NewlySubmitted = BatchSize \/ Len(orderObjs') = Len(input))
            /\ Submitted % BatchSize = 0
            /\ now = BatchTick
            /\ now' = now]_vars

\* three orders are in the collection, the third submitted one tick after the
\* first two
C13_Witness ==
    /\ Len(orders) = BatchSize + 1
    /\ Len(input) = BatchSize + 1
    /\ now = 2 * Seconds(MainSleep)

CourierIds == {courierObjs[k].id : k \in CourierTasks}

\* C14: the courier ids are exactly 1..k for k couriers created, one id per
\* courier; a courier created later has a larger id, and no entry of the
\* couriers map is ever replaced.
C14_UniqueIds ==
    /\ [](/\ CourierIds = 1..Cardinality(CourierTasks)
          /\ DOMAIN couriers = CourierIds
          /\ \A a, b \in CourierTasks : courierObjs[a].id = courierObjs[b].id => a = b
          /\ \A k \in CourierTasks : couriers[courierObjs[k].id] = k)
    /\ [][/\ \A id \in DOMAIN couriers : id \in DOMAIN couriers' /\ couriers'[id] = couriers[id]
          /\ \A k \in CourierTasks : k \in DOMAIN courierObjs' /\ courierObjs'[k].id = courierObjs[k].id
          /\ \A k \in DOMAIN courierObjs' \ CourierTasks :
                \A j \in CourierTasks : courierObjs'[k].id > courierObjs[j].id]_vars

\* couriers of two batches exist, one finished and one still on its way
C14_Witness ==
    /\ Cardinality(CourierTasks) = BatchSize + 1
    /\ \E k \in CourierTasks : dispPc[k] = "done"
    /\ \E k \in CourierTasks : dispPc[k] = "travel"

Arrived(k) == courierObjs[k].arrived_at # None

\* C15: ready_at of an order and arrived_at of a courier are unset until the
\* preparation, resp. travel, sleep has finished, are set then to the time of
\* that instant, and are never changed or cleared afterwards.
C15_SetOnce ==
    /\ [](/\ \A o \in OrderIds : Ready(o) <=> orderPc[o] = "done"
          /\ \A k \in CourierTasks : Arrived(k) <=> dispPc[k] \notin {"created", "travel"})
    /\ [][/\ \A o \in OrderIds :
                IF Ready(o)
                THEN orderObjs'[o].ready_at = orderObjs[o].ready_at
                ELSE orderObjs'[o].ready_at \in {None, now}
          /\ \A k \in CourierTasks :
                IF Arrived(k)
                THEN courierObjs'[k].arrived_at = courierObjs[k].arrived_at
                ELSE courierObjs'[k].arrived_at \in {None, now}]_vars

\* a courier that arrived earlier is still waiting, and an order that became
\* ready earlier has been picked up
C15_Witness ==
    /\ \E k \in CourierTasks :
          Arrived(k) /\ courierObjs[k].arrived_at < now /\ dispPc[k] \in {"wait_ready", "next_order"}
    /\ \E o \in OrderIds : Ready(o) /\ orderObjs[o].ready_at < now /\ o \in {PickedBy(k) : k \in Finished}

\* ---- C16 ----
\* what the input and the draws alone determine under Matched: both sleeps of
\* a slot start in the same loop iteration, so the nominal gap between
\* ready_at and arrived_at is the difference of the two durations
NominalCourierWait(k) ==
    Max(0, Seconds(input[k].prepTime) - Seconds(courierObjs[k].delay)) * MsPerTick
NominalOrderWait(k) ==
    Max(0, Seconds(courierObjs[k].delay) - Seconds(input[k].prepTime)) * MsPerTick
NominalAverages ==
    <<<<SumSeq([k \in 1..Len(input) |-> NominalCourierWait(k)]), Len(input)>>,
      <<SumSeq([k \in 1..Len(input) |-> NominalOrderWait(k)]), Len(input)>>>>

\* C16: runs with the same input, strategy and seed draw the travel durations
\* in the same order (the k-th draw goes to the courier created for the k-th
\* submitted order) and end with the same final averages, i.e. the final
\* averages are the value fixed by the input and the draws.
C16_Original ==
    /\ \A k \in CourierTasks : courierObjs[k].id = k
    /\ (mainPc = "done" /\ strategy = "matched") => averages = NominalAverages
\* the draw order alone does hold in every run
C16_DrawOrder == \A k \in CourierTasks : courierObjs[k].id = k
\* a run on schedule ends with the nominal averages
C16_OnSchedule ==
    mainPc = "done" /\ strategy = "matched" /\ Len(input) = 1 /\ averages = NominalAverages

\* ---- C17 ----
\* C17: under Fifo with the input [o1 prepTime 5, o2 prepTime 2] the order a
\* courier picks up is decided by the scan, not by the submission that created
\* the courier: when the courier created on submission of o1 travels no longer
\* than the other one, it picks up o2 and the courier created for o2 picks up o1.
C17_CrossPickup ==
    (strategy = "fifo" /\ CourierTasks = {1, 2}
        /\ courierObjs[1].delay <= courierObjs[2].delay)
    => /\ 1 \in Finished => PickedBy(1) = 2
       /\ 2 \in Finished => PickedBy(2) = 1
\* the run has ended with the two couriers holding each other's order
C17_Witness ==
    /\ strategy = "fifo" /\ input = Scenario /\ mainPc = "done"
    /\ PickedBy(1) = 2 /\ PickedBy(2) = 1

\* ---- C18 ----
\* the steps a courier task may take from one phase to the next
Lifecycle ==
    {<<"none", "created">>, <<"created", "travel">>, <<"travel", "next_order">>,
     <<"travel", "wait_ready">>, <<"travel", "done">>, <<"next_order", "done">>,
     <<"wait_ready", "done">>}
\* the courier holding courier id c
CourierOf(c) == courierObjs[couriers[c]]
PhasesConsistent ==
    /\ \A k \in CourierTasks :
          /\ dispPc[k] = "travel" <=> courierObjs[k].arrived_at = None
          /\ dispPc[k] \in {"travel", "next_order", "wait_ready", "done"}
          /\ dispPc[k] = "done" => PickedBy(k) # None /\ Ready(PickedBy(k))
    /\ \A o \in OrderIds :
          Claimed(o) => Ready(o) /\ CourierOf(orderObjs[o].courier_id).arrived_at # None
    /\ \A i \in Recorded : PairArrived(i) # None /\ PairReady(i) # None
PhaseSteps ==
    /\ \A k \in Slots : dispPc'[k] # dispPc[k] => <<dispPc[k], dispPc'[k]>> \in Lifecycle
    /\ \A o \in OrderIds :
          (~Claimed(o) /\ orderObjs'[o].courier_id # None)
          => /\ Ready(o)
             /\ CourierOf(orderObjs'[o].courier_id).arrived_at # None
             /\ dispPc[couriers[orderObjs'[o].courier_id]] = "next_order"
    /\ Len(completed') > Len(completed)
          => \A i \in (1..Len(completed')) \ Recorded :
                /\ courierObjs'[completed'[i]].arrived_at # None
                /\ orderObjs'[courierObjs'[completed'[i]].order].ready_at # None

\* C18: every courier goes en route, arrived, waiting, picked up in that
\* order; a Fifo courier claims an order only after its own arrived_at is set
\* and only an order whose ready_at is set; the waits of a pairing are computed
\* only when the courier's arrived_at and the order's ready_at are both set.
C18_Lifecycle == []PhasesConsistent /\ [][PhaseSteps]_vars
\* one Fifo courier has picked up, another has arrived and is scanning while
\* an order is still unready and unclaimed
C18_Witness ==
    /\ strategy = "fifo"
    /\ \E k \in CourierTasks, j \in Finished :
          dispPc[k] = "next_order" /\ courierObjs[k].arrived_at < now
    /\ \E o \in OrderIds : ~Ready(o) /\ ~Claimed(o)

\* ---- C19 ----
\* courier task k performs one scan of get_next_order in this step
Scans(k) ==
    /\ k \in CourierTasks
    /\ dispPc[k] = "next_order"
    /\ Running(DTask(k))
    /\ ready' = Tail(ready)
ReadyUnclaimed == {o \in OrderIds : Ready(o) /\ ~Claimed(o)}
WorkConserving ==
    \A k \in Slots :
       Scans(k) =>
          /\ ReadyUnclaimed # {} =>
                /\ dispPc'[k] = "done"
                /\ courierObjs'[k].order \in ReadyUnclaimed
          /\ dispPc'[k] = "done" \/ ReadyUnclaimed' = {}

\* C19: under Fifo a scan by an arrived, unpaired courier made while some
\* order is ready and unclaimed claims an order; right after any scan the
\* scanning courier is paired or no ready and unclaimed order exists.
C19_WorkConserving == [][WorkConserving]_vars
\* a courier has just claimed on its first scan while a second ready order is
\* left unclaimed for a courier that is still travelling
C19_Witness ==
    /\ strategy = "fifo"
    /\ \E k \in Finished : courierObjs[k].arrived_at + PollInterval = now
    /\ ReadyUnclaimed # {}
    /\ \E j \in CourierTasks : dispPc[j] = "travel"

\* ---- C20 ----
HasDup == \E i, j \in 1..Len(input) : i < j /\ input[i].id = input[j].id
\* the batch in which the i-th descriptor is submitted
BatchOf(i) == (i - 1) \div BatchSize
\* two descriptors share an id and the later one is submitted before any
\* courier created with the earlier one can have made its first scan
CloseDup ==
    \E i, j \in 1..Len(input) :
        /\ i < j /\ input[i].id = input[j].id
        /\ (BatchOf(j) - BatchOf(i)) * Seconds(MainSleep) < Seconds(MinDelay) + PollInterval
\* order objects that were stored in the dict and are no longer in it
Replaced ==
    {o \in OrderIds : /\ prepPc[o] \notin {"none", "created"}
                      /\ \A i \in 1..Len(orders) : orders[i].obj # o}
\* ... and were not claimed before they were replaced
Lost == {o \in Replaced : ~Claimed(o)}
Stored == {o \in OrderIds : prepPc[o] \notin {"none", "created"}}
InDictUnclaimed == {o \in OrderIds \ Replaced : o \in Stored /\ ~Claimed(o)}
Polling == \E k \in CourierTasks : dispPc[k] = "next_order"
OwnOrders == \A k \in CourierTasks : PickedBy(k) = k

====
